---- MODULE Spec2Model ----
(***************************************************************************)
(* Model of the retry executor of estafette-foundation (package            *)
(* foundation, func Retry and its helpers) as a state machine.             *)
(*                                                                         *)
(* One behaviour of the model is one call Retry(retryableFunc, opts...).   *)
(* The options are applied one by one over the defaults, the error log is  *)
(* allocated, and then the loop runs: every invocation of retryableFunc    *)
(* returns a value drawn from ReturnValues.  Durations are kept in         *)
(* nanoseconds, as time.Duration is.                                       *)
(***************************************************************************)
EXTENDS Integers, Sequences, FiniteSets, TLC

\* ------------------------------------------------------------------------
\* Bounds of the model
\* ------------------------------------------------------------------------
MaxAttempts == 3

MaxDelay == 4

\* options passed to one recorded Retry call
MaxOpts == 2

\* goroutines that call Acquire, Wait or select on the acquire channel
NumThreads == 2

\* largest maxConcurrency given to NewSemaphore
MaxCap == 2

\* Wait calls made on one semaphore
MaxWaits == 2

\* Release calls made without a permit
MaxUnmatched == 1

\* number of states of the random source in the model
RngStates == 3

\* ------------------------------------------------------------------------
\* Program constants
\* ------------------------------------------------------------------------
DefaultAttempts == 3

DefaultDelayMillisecond == 100

\* time.Millisecond, in nanoseconds
Millisecond == 1000000

\* ------------------------------------------------------------------------
\* Error values
\* ------------------------------------------------------------------------
\* the nil error
Nil == [type |-> "nil"]

\* the value of the result variable while Retry has not returned
NoResult == [type |-> "none"]

ErrToRetry == [type |-> "errorString", s |-> "This is an that should be retried"]

ErrToNotRetry == [type |-> "errorString", s |-> "This is an that should NOT be retried"]

\* type unrecoverableError struct { error }
unrecoverableError(err) == [type |-> "unrecoverableError", error |-> err]

\* the non-nil errors retryableFunc returns in this model: two ordinary
\* errors, one of them wrapped once, and wrapped twice
Errors ==
    {ErrToRetry, ErrToNotRetry, unrecoverableError(ErrToRetry),
     unrecoverableError(unrecoverableError(ErrToRetry))}

\* everything retryableFunc can return
ReturnValues == {Nil} \cup Errors

\* err.Error(): the embedded error's method is promoted by the wrapper
RECURSIVE ErrorString(_)
ErrorString(err) ==
    IF err.type = "unrecoverableError" THEN ErrorString(err.error) ELSE err.s

\* type RetryError []error, indexed from 0 as the slice is
RetryError(log) == [type |-> "RetryError", log |-> log]

\* make(RetryError, size): size nil entries
MakeRetryError(size) == [i \in 0..(size - 1) |-> Nil]

unpackUnrecoverable(err) ==
    IF err.type = "unrecoverableError" THEN err.error ELSE err

lenWithoutNil_CountsAll(e) == Cardinality(DOMAIN e)

lenWithoutNil(e) == Cardinality({i \in DOMAIN e : e[i] # Nil})

\* the value a slot of logWithNumber has when the loop never wrote it: ""
EmptyEntry == [num |-> 0, msg |-> ""]

\* RetryError.Error(): the lines joined under the header, or a panic when
\* the loop writes past the slice sized by lenWithoutNil
RetryError_Error(e) ==
    LET size == lenWithoutNil(e)
        written == {i \in DOMAIN e : e[i] # Nil}
    IN  IF \E i \in written : i >= size
        THEN [panic |-> TRUE, header |-> "", logWithNumber |-> <<>>]
        ELSE [panic |-> FALSE,
              header |-> "All attempts fail:",
              logWithNumber |->
                  [i \in 0..(size - 1) |->
                      IF i \in written
                      THEN [num |-> i + 1, msg |-> ErrorString(e[i])]
                      ELSE EmptyEntry]]

\* ------------------------------------------------------------------------
\* Predicates and delay strategies
\* ------------------------------------------------------------------------
AnyErrorIsRetryable == [err \in ReturnValues |-> err # Nil]

\* the IsRetryableErrorFunc values a custom option can install; none of
\* them is ever called with nil
IsRetryableErrorFuncs == {f \in [ReturnValues -> BOOLEAN] : ~f[Nil]}

Pow2(n) == IF n = 0 THEN 1 ELSE IF n = 1 THEN 2 ELSE IF n = 2 THEN 4
           ELSE IF n = 3 THEN 8 ELSE IF n = 4 THEN 16 ELSE 32

\* int(0.25 * float64(input)): truncation toward zero
Deviation(input) ==
    IF input >= 0 THEN input \div 4 ELSE 0 - ((0 - input) \div 4)

\* r.Intn(n) panics for n <= 0
IntnPanics(n) == n <= 0

Intn(n) == 0..(n - 1)

\* the state of the source after one number was drawn in state s
Advance(s) == (s + 1) % RngStates

ApplyJitterPanics(input) == IntnPanics(2 * Deviation(input))

\* the values ApplyJitter(input) can return
ApplyJitter(input) ==
    {input - Deviation(input) + x : x \in Intn(2 * Deviation(input))}

ExponentialJitterBackoffDelay(n, c) ==
    {ms * Millisecond : ms \in ApplyJitter(c.DelayMillisecond * Pow2(n))}

ExponentialBackOffDelay(n, c) == {c.DelayMillisecond * Pow2(n)}

FixedDelay_Grows(n, c) == {c.DelayMillisecond * (n + 1)}

FixedDelay(n, c) == {c.DelayMillisecond}

\* the state of r after config.DelayType(n, config) returned, s being its
\* state before: the jitter strategy draws one number in ApplyJitter, the
\* other strategies do not use r
SourceAfterDelayType(c, s) ==
    IF c.DelayType = "ExponentialJitterBackoffDelay" THEN Advance(s) ELSE s

\* config.DelayType(n, config) panics
DelayTypePanics(n, c) ==
    /\ c.DelayType = "ExponentialJitterBackoffDelay"
    /\ ApplyJitterPanics(c.DelayMillisecond * Pow2(n))

DelayType_IndexFromOne(n, c) ==
    IF c.DelayType = "ExponentialJitterBackoffDelay"
    THEN ExponentialJitterBackoffDelay(n + 1, c)
    ELSE IF c.DelayType = "ExponentialBackOffDelay"
    THEN ExponentialBackOffDelay(n + 1, c)
    ELSE FixedDelay(n + 1, c)

\* the durations config.DelayType(n, config) can return
DelayType(n, c) ==
    IF c.DelayType = "ExponentialJitterBackoffDelay"
    THEN ExponentialJitterBackoffDelay(n, c)
    ELSE IF c.DelayType = "ExponentialBackOffDelay"
    THEN ExponentialBackOffDelay(n, c)
    ELSE FixedDelay(n, c)

\* ------------------------------------------------------------------------
\* Configuration and options
\* ------------------------------------------------------------------------
DefaultConfig_FixedDelay ==
    [Attempts |-> DefaultAttempts,
     DelayMillisecond |-> DefaultDelayMillisecond,
     DelayType |-> "FixedDelay",
     LastErrorOnly |-> FALSE,
     IsRetryableError |-> AnyErrorIsRetryable]

DefaultConfig ==
    [Attempts |-> DefaultAttempts,
     DelayMillisecond |-> DefaultDelayMillisecond,
     DelayType |-> "ExponentialJitterBackoffDelay",
     LastErrorOnly |-> FALSE,
     IsRetryableError |-> AnyErrorIsRetryable]

Attempts(attempts, c) == [c EXCEPT !.Attempts = attempts]

DelayMillisecond(delayMilliSeconds, c) == [c EXCEPT !.DelayMillisecond = delayMilliSeconds]

ExponentialJitterBackoff(c) == [c EXCEPT !.DelayType = "ExponentialJitterBackoffDelay"]

ExponentialBackOff(c) == [c EXCEPT !.DelayType = "ExponentialBackOffDelay"]

Fixed_ResetsDelay(c) ==
    [c EXCEPT !.DelayType = "FixedDelay", !.DelayMillisecond = DefaultDelayMillisecond]

Fixed(c) == [c EXCEPT !.DelayType = "FixedDelay"]

AnyError(c) == [c EXCEPT !.IsRetryableError = AnyErrorIsRetryable]

LastErrorOnly(lastErrorOnly, c) == [c EXCEPT !.LastErrorOnly = lastErrorOnly]

\* a custom option func(c *RetryConfig) { c.IsRetryableError = f }
isRetryableErrorCustomOption(f, c) == [c EXCEPT !.IsRetryableError = f]

RetryOptions ==
    [opt : {"Attempts"}, arg : 0..MaxAttempts]
    \cup [opt : {"DelayMillisecond"}, arg : 0..MaxDelay]
    \cup [opt : {"ExponentialJitterBackoff", "ExponentialBackOff", "Fixed", "AnyError"}, arg : {0}]
    \cup [opt : {"LastErrorOnly"}, arg : BOOLEAN]
    \cup [opt : {"isRetryableErrorCustomOption"}, arg : IsRetryableErrorFuncs]

\* opt(config)
ApplyOpt(o, c) ==
    CASE o.opt = "Attempts" -> Attempts(o.arg, c)
      [] o.opt = "DelayMillisecond" -> DelayMillisecond(o.arg, c)
      [] o.opt = "ExponentialJitterBackoff" -> ExponentialJitterBackoff(c)
      [] o.opt = "ExponentialBackOff" -> ExponentialBackOff(c)
      [] o.opt = "Fixed" -> Fixed(c)
      [] o.opt = "AnyError" -> AnyError(c)
      [] o.opt = "LastErrorOnly" -> LastErrorOnly(o.arg, c)
      [] OTHER -> isRetryableErrorCustomOption(o.arg, c)

\* ------------------------------------------------------------------------
\* State
\* ------------------------------------------------------------------------
VARIABLES
    pc,           \* where the Retry call is
    config,       \* *RetryConfig
    n,            \* attempt counter
    lastErrIndex, \* slot of errorLog the next failure is stored in
    errorLog,     \* RetryError under construction
    delayTime,    \* the duration about to be slept (0 outside an iteration)
    outcomes,     \* what each invocation of retryableFunc returned, in order
    sleeps,       \* the attempt index n of every time.Sleep call made so far
    result,       \* the value Retry returned
    applied,      \* the options applied so far, when the call is recorded
    capacity,         \* maxConcurrency, the cap of every channel of the semaphore
    semaphoreChannel, \* s.semaphoreChannel: the channel the field refers to
    nchans,           \* number of channels made so far
    buf,              \* per channel: number of tokens in its buffer
    sendq,            \* per channel: the goroutines parked in a send, in order
    recvq,            \* per channel: number of Release calls parked in a receive
    tpc,              \* per goroutine: where it is
    tch,              \* per goroutine: the channel it read from the field
    wi,               \* per goroutine: the loop index i of its Wait call
    held,             \* permits acquired whose Release has not been called yet
    releasing,        \* per channel: Release calls that read the field, not yet received
    unmatched,        \* Release calls made without a permit so far
    waits,            \* Wait calls made so far
    served,           \* parity of the number of parked Acquire sends a Release has completed
    selHeld,          \* those of the held permits that were taken in a select
    coordinators,     \* the goroutines that call Wait
    rngState,         \* the state of r, the random source
    jpc,              \* per goroutine: where its ApplyJitter call is
    jin,              \* per goroutine: the input of its ApplyJitter call
    jseed             \* per goroutine: the state of r it read in r.Intn, or Stale

retryVars == <<pc, config, n, lastErrIndex, errorLog, delayTime, outcomes, sleeps, result>>

semVars == <<capacity, semaphoreChannel, nchans, buf, sendq, recvq, tpc, tch, wi,
             held, releasing, unmatched, waits, served, selHeld, coordinators>>

rngVars == <<rngState, jpc, jin, jseed>>

vars == <<retryVars, applied, semVars, rngVars>>

calls == Len(outcomes)

\* the goroutines of the semaphore model and the channels they can make
Threads == 1..NumThreads

ChanIds == 0..MaxWaits

\* NewSemaphore(maxConcurrency): one empty channel of that capacity, and
\* no goroutine using it yet
NewSemaphore(maxConcurrency) ==
    /\ capacity = maxConcurrency
    /\ semaphoreChannel = 0
    /\ nchans = 1
    /\ buf = [c \in ChanIds |-> 0]
    /\ sendq = [c \in ChanIds |-> <<>>]
    /\ recvq = [c \in ChanIds |-> 0]
    /\ tpc = [t \in Threads |-> "idle"]
    /\ tch = [t \in Threads |-> 0]
    /\ wi = [t \in Threads |-> 0]
    /\ held = 0
    /\ releasing = [c \in ChanIds |-> 0]
    /\ unmatched = 0
    /\ waits = 0
    /\ served = 0
    /\ selHeld = 0

\* the state of a Retry call before its first step
RetryInit ==
    /\ pc = "options"
    /\ config = DefaultConfig
    /\ n = 0
    /\ lastErrIndex = 0
    /\ errorLog = MakeRetryError(0)
    /\ delayTime = 0
    /\ outcomes = <<>>
    /\ sleeps = <<>>
    /\ result = NoResult
    /\ applied = <<>>

\* no goroutine is in ApplyJitter
NoJitterCall ==
    /\ jpc = [t \in Threads |-> "idle"]
    /\ jin = [t \in Threads |-> 0]
    /\ jseed = [t \in Threads |-> 0]

\* a Retry call; the semaphore is not used
Init ==
    /\ RetryInit
    /\ NewSemaphore(1)
    /\ coordinators = {1}
    /\ rngState = 0
    /\ NoJitterCall

\* ------------------------------------------------------------------------
\* Steps of Retry
\* ------------------------------------------------------------------------
\* for _, opt := range opts { opt(config) }: one iteration
ApplyOption(o) ==
    /\ pc = "options"
    /\ config' = ApplyOpt(o, config)
    /\ UNCHANGED <<pc, n, lastErrIndex, errorLog, delayTime, outcomes, sleeps, result,
                 applied, semVars, rngVars>>

\* the allocation of errorLog and the entry into the loop
AllocateErrorLog ==
    /\ pc = "options"
    /\ errorLog' = IF ~config.LastErrorOnly
                   THEN MakeRetryError(config.Attempts)
                   ELSE MakeRetryError(1)
    /\ lastErrIndex' = n
    /\ pc' = "loop"
    /\ UNCHANGED <<config, n, delayTime, outcomes, sleeps, result,
                 applied, semVars, rngVars>>

LoopCondition_OffByOne(k, c) == k <= c.Attempts

\* for n < config.Attempts
LoopCondition(k, c) == k < c.Attempts

IsLastAttempt_Never(k, c) == FALSE

\* n == config.Attempts-1, in uint arithmetic: for Attempts = 0 the right
\* side wraps to 2^64-1, which no attempt counter of the model reaches
IsLastAttempt(k, c) == c.Attempts # 0 /\ k = c.Attempts - 1

IsNotRetryable_Ignored(c, err) == FALSE

\* !config.IsRetryableError(err)
IsNotRetryable(c, err) == ~c.IsRetryableError[err]

\* the loop condition fails
LoopExit ==
    /\ pc = "loop"
    /\ ~LoopCondition(n, config)
    /\ pc' = "return"
    /\ UNCHANGED <<config, n, lastErrIndex, errorLog, delayTime, outcomes, sleeps, result,
                 applied, semVars, rngVars>>

\* retryableFunc() returns nil: return nil
OperationSucceeds ==
    /\ pc = "loop"
    /\ LoopCondition(n, config)
    /\ outcomes' = Append(outcomes, Nil)
    /\ result' = Nil
    /\ pc' = "done"
    /\ UNCHANGED <<config, n, lastErrIndex, errorLog, delayTime, sleeps,
                 applied, semVars, rngVars>>

\* retryableFunc() returns err: the error is stored, then the loop breaks,
\* or the delay is computed. The jitter strategy draws the delay from the
\* random source r, which advances; r.Intn panics before it uses r.
OperationFails(err) ==
    /\ pc = "loop"
    /\ LoopCondition(n, config)
    /\ outcomes' = Append(outcomes, err)
    /\ IF lastErrIndex \notin DOMAIN errorLog
       THEN /\ pc' = "panic"
            /\ UNCHANGED <<errorLog, delayTime, rngState>>
       ELSE /\ errorLog' = [errorLog EXCEPT ![lastErrIndex] = unpackUnrecoverable(err)]
            /\ IF IsLastAttempt(n, config) \/ IsNotRetryable(config, err)
               THEN /\ pc' = "return"
                    /\ UNCHANGED <<delayTime, rngState>>
               ELSE IF DelayTypePanics(n, config)
               THEN /\ pc' = "panic"
                    /\ UNCHANGED <<delayTime, rngState>>
               ELSE /\ pc' = "sleep"
                    /\ delayTime' \in DelayType(n, config)
                    /\ rngState' = SourceAfterDelayType(config, rngState)
    /\ UNCHANGED <<config, n, lastErrIndex, sleeps, result,
                 applied, semVars, jpc, jin, jseed>>

\* retryableFunc() panics: the panic is raised in the frame of Retry
OperationPanics ==
    /\ pc = "loop"
    /\ LoopCondition(n, config)
    /\ pc' = "opPanic"
    /\ UNCHANGED <<config, n, lastErrIndex, errorLog, delayTime, outcomes, sleeps, result,
                 applied, semVars, rngVars>>

RetryRecovers_Always == TRUE

\* Retry defers no call, so nothing in it recovers a panic
RetryRecovers == FALSE

\* the panic of retryableFunc unwinds the frame of Retry and goes on to the
\* caller
PanicUnwinds ==
    /\ pc = "opPanic"
    /\ pc' = IF RetryRecovers THEN "return" ELSE "propagated"
    /\ UNCHANGED <<config, n, lastErrIndex, errorLog, delayTime, outcomes, sleeps, result,
                 applied, semVars, rngVars>>

NextErrIndex_Skips(c, k, idx) == IF ~c.LastErrorOnly THEN k + 2 ELSE idx

\* if !config.LastErrorOnly { lastErrIndex = n }, with k the value of n
\* before n++
NextErrIndex(c, k, idx) == IF ~c.LastErrorOnly THEN k + 1 ELSE idx

\* time.Sleep(delayTime); n++; the slot follows n unless LastErrorOnly.
\* delayTime is local to the iteration and is gone after it.
Sleep ==
    /\ pc = "sleep"
    /\ sleeps' = Append(sleeps, n)
    /\ delayTime' = 0
    /\ n' = n + 1
    /\ lastErrIndex' = NextErrIndex(config, n, lastErrIndex)
    /\ pc' = "loop"
    /\ UNCHANGED <<config, errorLog, outcomes, result,
                 applied, semVars, rngVars>>

ReturnValue_AlwaysAggregate(c, log, idx) == RetryError(log)

\* the value returned after the loop
ReturnValue(c, log, idx) ==
    IF c.LastErrorOnly THEN log[idx] ELSE RetryError(log)

Return ==
    /\ pc = "return"
    /\ IF config.LastErrorOnly /\ lastErrIndex \notin DOMAIN errorLog
       THEN pc' = "panic" /\ UNCHANGED result
       ELSE pc' = "done" /\ result' = ReturnValue(config, errorLog, lastErrIndex)
    /\ UNCHANGED <<config, n, lastErrIndex, errorLog, delayTime, outcomes, sleeps,
                 applied, semVars, rngVars>>

Next ==
    \/ \E o \in RetryOptions : ApplyOption(o)
    \/ AllocateErrorLog
    \/ LoopExit
    \/ OperationSucceeds
    \/ \E err \in Errors : OperationFails(err)
    \/ OperationPanics
    \/ PanicUnwinds
    \/ Sleep
    \/ Return

Spec == Init /\ [][Next]_vars

\* ------------------------------------------------------------------------
\* A Retry call whose options are recorded
\* ------------------------------------------------------------------------
\* for _, opt := range opts { opt(config) }: one iteration, with the option
\* kept in applied
ApplyRecordedOption(o) ==
    /\ pc = "options"
    /\ Len(applied) < MaxOpts
    /\ config' = ApplyOpt(o, config)
    /\ applied' = Append(applied, o)
    /\ UNCHANGED <<pc, n, lastErrIndex, errorLog, delayTime, outcomes, sleeps, result,
                 semVars, rngVars>>

OptNext ==
    \/ \E o \in RetryOptions : ApplyRecordedOption(o)
    \/ AllocateErrorLog
    \/ LoopExit
    \/ OperationSucceeds
    \/ \E err \in Errors : OperationFails(err)
    \/ OperationPanics
    \/ PanicUnwinds
    \/ Sleep
    \/ Return

OptSpec == Init /\ [][OptNext]_vars

\* every step of the call that can be taken is taken: the operation and
\* time.Sleep return, and the goroutine is scheduled
FairOptSpec == OptSpec /\ WF_vars(OptNext)

\* ------------------------------------------------------------------------
\* The semaphore: goroutines calling Acquire, Release, Wait and selecting
\* on the channel returned by GetAcquireChannel
\* ------------------------------------------------------------------------
CoordinatorSets == {{1}, {1, 2}}

SemInit ==
    /\ RetryInit
    /\ \E maxConcurrency \in 1..MaxCap : NewSemaphore(maxConcurrency)
    /\ coordinators \in CoordinatorSets
    /\ rngState = 0
    /\ NoJitterCall

SendReady_NoLimit(c) == recvq[c] > 0 \/ buf[c] <= capacity

\* a send on channel c does not block: a receiver is parked, or the buffer
\* has room
SendReady(c) == recvq[c] > 0 \/ buf[c] < capacity

\* the effect on channel c of a send that does not block
SendNow(c) ==
    /\ IF recvq[c] > 0
       THEN recvq' = [recvq EXCEPT ![c] = @ - 1] /\ UNCHANGED buf
       ELSE buf' = [buf EXCEPT ![c] = @ + 1] /\ UNCHANGED recvq
    /\ UNCHANGED sendq

\* goroutine t parks in the send queue of channel c
SendPark(t, c) ==
    /\ sendq' = [sendq EXCEPT ![c] = Append(@, t)]
    /\ UNCHANGED <<buf, recvq>>

\* Acquire() is called: s.semaphoreChannel is read
CallAcquire(t) ==
    /\ tpc[t] = "idle"
    /\ tpc' = [tpc EXCEPT ![t] = "Acquire"]
    /\ tch' = [tch EXCEPT ![t] = semaphoreChannel]
    /\ UNCHANGED <<capacity, semaphoreChannel, nchans, buf, sendq, recvq, wi,
                 held, releasing, unmatched, waits, served, selHeld, coordinators>>
    /\ UNCHANGED <<retryVars, applied, rngVars>>

\* s.semaphoreChannel <- struct{}{} in Acquire: done at once, or parked
AcquireSend(t) ==
    /\ tpc[t] = "Acquire"
    /\ IF SendReady(tch[t])
       THEN /\ SendNow(tch[t])
            /\ tpc' = [tpc EXCEPT ![t] = "idle"]
            /\ held' = held + 1
       ELSE /\ SendPark(t, tch[t])
            /\ tpc' = [tpc EXCEPT ![t] = "AcquireParked"]
            /\ UNCHANGED held
    /\ UNCHANGED <<capacity, semaphoreChannel, nchans, tch, wi,
                 releasing, unmatched, waits, served, selHeld, coordinators>>
    /\ UNCHANGED <<retryVars, applied, rngVars>>

GetAcquireChannel_Acquires(t) ==
    /\ tpc[t] = "idle"
    /\ SendReady(semaphoreChannel)
    /\ SendNow(semaphoreChannel)
    /\ tpc' = [tpc EXCEPT ![t] = "Select"]
    /\ tch' = [tch EXCEPT ![t] = semaphoreChannel]
    /\ UNCHANGED <<capacity, semaphoreChannel, nchans, wi,
                 held, releasing, unmatched, waits, served, selHeld, coordinators>>
    /\ UNCHANGED <<retryVars, applied, rngVars>>

\* GetAcquireChannel() is called for a select: s.semaphoreChannel is read
GetAcquireChannel(t) ==
    /\ tpc[t] = "idle"
    /\ tpc' = [tpc EXCEPT ![t] = "Select"]
    /\ tch' = [tch EXCEPT ![t] = semaphoreChannel]
    /\ UNCHANGED <<capacity, semaphoreChannel, nchans, buf, sendq, recvq, wi,
                 held, releasing, unmatched, waits, served, selHeld, coordinators>>
    /\ UNCHANGED <<retryVars, applied, rngVars>>

SelectSend_NoToken(t) ==
    /\ tpc[t] = "Select"
    /\ tpc' = [tpc EXCEPT ![t] = "idle"]
    /\ held' = held + 1
    /\ selHeld' = selHeld + 1
    /\ UNCHANGED <<buf, sendq, recvq>>
    /\ UNCHANGED <<capacity, semaphoreChannel, nchans, tch, wi,
                 releasing, unmatched, waits, served, coordinators>>
    /\ UNCHANGED <<retryVars, applied, rngVars>>

\* select { case ch <- struct{}{}: ... }: the send case is taken at once, or
\* the goroutine parks on the channel until a case is ready
SelectSend(t) ==
    /\ tpc[t] = "Select"
    /\ IF SendReady(tch[t])
       THEN /\ SendNow(tch[t])
            /\ tpc' = [tpc EXCEPT ![t] = "idle"]
            /\ held' = held + 1
            /\ selHeld' = selHeld + 1
       ELSE /\ SendPark(t, tch[t])
            /\ tpc' = [tpc EXCEPT ![t] = "SelectParked"]
            /\ UNCHANGED <<held, selHeld>>
    /\ UNCHANGED <<capacity, semaphoreChannel, nchans, tch, wi,
                 releasing, unmatched, waits, served, coordinators>>
    /\ UNCHANGED <<retryVars, applied, rngVars>>

\* the queue q without goroutine t
Without(q, t) == SelectSeq(q, LAMBDA x : x # t)

\* select { ... case <-time.After(...): }: the timeout case is taken and
\* the goroutine is in the body of that case
SelectTimeout(t) ==
    /\ tpc[t] \in {"Select", "SelectParked"}
    /\ tpc' = [tpc EXCEPT ![t] = "TimedOut"]
    /\ sendq' = [sendq EXCEPT ![tch[t]] = Without(@, t)]
    /\ UNCHANGED <<capacity, semaphoreChannel, nchans, buf, recvq, tch, wi,
                 held, releasing, unmatched, waits, served, selHeld, coordinators>>
    /\ UNCHANGED <<retryVars, applied, rngVars>>

\* the body of the timeout case is over: the goroutine goes on without a
\* permit
TimeoutReturn(t) ==
    /\ tpc[t] = "TimedOut"
    /\ tpc' = [tpc EXCEPT ![t] = "idle"]
    /\ UNCHANGED <<capacity, semaphoreChannel, nchans, buf, sendq, recvq, tch, wi,
                 held, releasing, unmatched, waits, served, selHeld, coordinators>>
    /\ UNCHANGED <<retryVars, applied, rngVars>>

\* Release() is called for a permit that was acquired, one taken in a select
\* or one taken by Acquire: the field is read
CallRelease ==
    /\ held > 0
    /\ held' = held - 1
    /\ \E k \in {0, 1} :
          /\ selHeld - k >= 0
          /\ selHeld - k <= held - 1
          /\ selHeld' = selHeld - k
    /\ releasing' = [releasing EXCEPT ![semaphoreChannel] = @ + 1]
    /\ UNCHANGED <<capacity, semaphoreChannel, nchans, buf, sendq, recvq, tpc, tch, wi,
                 unmatched, waits, served, coordinators>>
    /\ UNCHANGED <<retryVars, applied, rngVars>>

\* Release() is called without a permit: the field is read
CallUnmatchedRelease ==
    /\ unmatched < MaxUnmatched
    /\ unmatched' = unmatched + 1
    /\ releasing' = [releasing EXCEPT ![semaphoreChannel] = @ + 1]
    /\ UNCHANGED <<capacity, semaphoreChannel, nchans, buf, sendq, recvq, tpc, tch, wi,
                 held, waits, served, selHeld, coordinators>>
    /\ UNCHANGED <<retryVars, applied, rngVars>>

\* the send of parked goroutine th is completed by a receiver
CompleteParked(th) ==
    IF tpc[th] = "WaitParked"
    THEN /\ tpc' = [tpc EXCEPT ![th] = "Wait"]
         /\ wi' = [wi EXCEPT ![th] = @ + 1]
         /\ UNCHANGED <<held, selHeld>>
    ELSE /\ tpc' = [tpc EXCEPT ![th] = "idle"]
         /\ held' = held + 1
         /\ selHeld' = IF tpc[th] = "SelectParked" THEN selHeld + 1 ELSE selHeld
         /\ UNCHANGED wi

ReleaseReceive_Underflow(c) ==
    /\ releasing[c] > 0
    /\ releasing' = [releasing EXCEPT ![c] = @ - 1]
    /\ buf' = [buf EXCEPT ![c] = @ - 1]
    /\ UNCHANGED <<sendq, recvq, tpc, wi, held, served, selHeld>>
    /\ UNCHANGED <<capacity, semaphoreChannel, nchans, tch,
                 unmatched, waits, coordinators>>
    /\ UNCHANGED <<retryVars, applied, rngVars>>

ReleaseReceive_NoReceive(c) ==
    /\ releasing[c] > 0
    /\ releasing' = [releasing EXCEPT ![c] = @ - 1]
    /\ UNCHANGED <<buf, sendq, recvq, tpc, wi, held, served, selHeld>>
    /\ UNCHANGED <<capacity, semaphoreChannel, nchans, tch,
                 unmatched, waits, coordinators>>
    /\ UNCHANGED <<retryVars, applied, rngVars>>

\* <-s.semaphoreChannel in Release, on the channel c the call read: a token
\* is taken and the first parked sender, if any, puts its own in; on an
\* empty channel the receiver parks
ReleaseReceive(c) ==
    /\ releasing[c] > 0
    /\ releasing' = [releasing EXCEPT ![c] = @ - 1]
    /\ IF buf[c] > 0
       THEN IF sendq[c] # <<>>
            THEN /\ sendq' = [sendq EXCEPT ![c] = Tail(@)]
                 /\ CompleteParked(Head(sendq[c]))
                 /\ served' = IF tpc[Head(sendq[c])] = "SelectParked"
                              THEN served ELSE 1 - served
                 /\ UNCHANGED <<buf, recvq>>
            ELSE /\ buf' = [buf EXCEPT ![c] = @ - 1]
                 /\ UNCHANGED <<sendq, recvq, tpc, wi, held, served, selHeld>>
       ELSE /\ recvq' = [recvq EXCEPT ![c] = @ + 1]
            /\ UNCHANGED <<buf, sendq, tpc, wi, held, served, selHeld>>
    /\ UNCHANGED <<capacity, semaphoreChannel, nchans, tch,
                 unmatched, waits, coordinators>>
    /\ UNCHANGED <<retryVars, applied, rngVars>>

\* Wait() is called
CallWait(t) ==
    /\ tpc[t] = "idle"
    /\ t \in coordinators
    /\ waits < MaxWaits
    /\ waits' = waits + 1
    /\ tpc' = [tpc EXCEPT ![t] = "Wait"]
    /\ wi' = [wi EXCEPT ![t] = 0]
    /\ UNCHANGED <<capacity, semaphoreChannel, nchans, buf, sendq, recvq, tch,
                 held, releasing, unmatched, served, selHeld, coordinators>>
    /\ UNCHANGED <<retryVars, applied, rngVars>>

WaitCondition_OffByOne(i, cap) == i < cap - 1

WaitCondition_OneMore(i, cap) == i <= cap

\* i < cap(s.semaphoreChannel)
WaitCondition(i, cap) == i < cap

\* the loop of Wait goes on: s.Acquire() is called and reads the field
WaitAcquire(t) ==
    /\ tpc[t] = "Wait"
    /\ WaitCondition(wi[t], capacity)
    /\ tpc' = [tpc EXCEPT ![t] = "WaitAcquire"]
    /\ tch' = [tch EXCEPT ![t] = semaphoreChannel]
    /\ UNCHANGED <<capacity, semaphoreChannel, nchans, buf, sendq, recvq, wi,
                 held, releasing, unmatched, waits, served, selHeld, coordinators>>
    /\ UNCHANGED <<retryVars, applied, rngVars>>

\* the send of the Acquire call made by Wait; i++ follows it
WaitAcquireSend(t) ==
    /\ tpc[t] = "WaitAcquire"
    /\ IF SendReady(tch[t])
       THEN /\ SendNow(tch[t])
            /\ tpc' = [tpc EXCEPT ![t] = "Wait"]
            /\ wi' = [wi EXCEPT ![t] = @ + 1]
       ELSE /\ SendPark(t, tch[t])
            /\ tpc' = [tpc EXCEPT ![t] = "WaitParked"]
            /\ UNCHANGED wi
    /\ UNCHANGED <<capacity, semaphoreChannel, nchans, tch,
                 held, releasing, unmatched, waits, served, selHeld, coordinators>>
    /\ UNCHANGED <<retryVars, applied, rngVars>>

MakeChannel_Reuse(fresh, current) == current

\* make(chan struct{}, cap(s.semaphoreChannel)): a channel that did not
\* exist before, not the one the field holds
MakeChannel(fresh, current) == fresh

\* the loop of Wait is over: the field is set to a new channel of the same
\* capacity, and Wait returns
WaitReset(t) ==
    /\ tpc[t] = "Wait"
    /\ ~WaitCondition(wi[t], capacity)
    /\ semaphoreChannel' = MakeChannel(nchans, semaphoreChannel)
    /\ nchans' = nchans + 1
    /\ tpc' = [tpc EXCEPT ![t] = "idle"]
    /\ UNCHANGED <<capacity, buf, sendq, recvq, tch, wi,
                 held, releasing, unmatched, waits, served, selHeld, coordinators>>
    /\ UNCHANGED <<retryVars, applied, rngVars>>

SemNext ==
    \/ \E t \in Threads : CallAcquire(t)
    \/ \E t \in Threads : AcquireSend(t)
    \/ \E t \in Threads : GetAcquireChannel(t)
    \/ \E t \in Threads : SelectSend(t)
    \/ \E t \in Threads : SelectTimeout(t)
    \/ CallRelease
    \/ CallUnmatchedRelease
    \/ \E c \in ChanIds : ReleaseReceive(c)
    \/ \E t \in Threads : CallWait(t)
    \/ \E t \in Threads : WaitAcquire(t)
    \/ \E t \in Threads : WaitAcquireSend(t)
    \/ \E t \in Threads : WaitReset(t)
    \/ \E t \in Threads : TimeoutReturn(t)

SemSpec == SemInit /\ [][SemNext]_vars

\* the scheduling the Go runtime gives: a goroutine that can run its next
\* step runs it, and every worker that has a permit calls Release
SemFairness ==
    /\ \A t \in Threads :
          /\ WF_vars(AcquireSend(t))
          /\ WF_vars(SelectSend(t))
          /\ WF_vars(WaitAcquire(t))
          /\ WF_vars(WaitAcquireSend(t))
          /\ WF_vars(WaitReset(t))
          /\ WF_vars(TimeoutReturn(t))
    /\ WF_vars(CallRelease)
    /\ \A c \in ChanIds : WF_vars(ReleaseReceive(c))

FairSemSpec == SemSpec /\ SemFairness

\* ------------------------------------------------------------------------
\* Goroutines that call ApplyJitter on the shared random source r
\* ------------------------------------------------------------------------

\* the inputs of the ApplyJitter calls
JitterInputs == {0, 4, 8}

\* the states of r
RngValues == 0..(RngStates - 1)

\* r = rand.New(rand.NewSource(time.Now().UnixNano())): seeded by the clock
JitterInit ==
    /\ RetryInit
    /\ NewSemaphore(1)
    /\ coordinators = {1}
    /\ rngState \in RngValues
    /\ NoJitterCall

\* a panic in any goroutine ends the process
NoPanic == \A t \in Threads : jpc[t] # "panic"

\* ApplyJitter(input) is called: the deviation is computed and r.Intn is
\* entered, which panics for an argument <= 0 before it uses the source
CallApplyJitter(t, input) ==
    /\ NoPanic
    /\ jpc[t] = "idle"
    /\ jin' = [jin EXCEPT ![t] = input]
    /\ jpc' = [jpc EXCEPT ![t] = IF ApplyJitterPanics(input) THEN "panic" ELSE "Intn"]
    /\ UNCHANGED <<rngState, jseed>>
    /\ UNCHANGED <<retryVars, applied, semVars>>

\* r.Intn reads the state of the source; r has no lock
IntnRead(t) ==
    /\ NoPanic
    /\ jpc[t] = "Intn"
    /\ jseed' = [jseed EXCEPT ![t] = rngState]
    /\ jpc' = [jpc EXCEPT ![t] = "IntnUpdate"]
    /\ UNCHANGED <<rngState, jin>>
    /\ UNCHANGED <<retryVars, applied, semVars>>

\* what a goroutine has read of r once another goroutine has written r
\* during its call
Stale == RngStates

\* the accesses of goroutine t to r race with those of another goroutine:
\* another goroutine is inside r.Intn with it, or wrote r during its call
Races(t) ==
    \/ jseed[t] = Stale
    \/ \E u \in Threads \ {t} : jpc[u] = "IntnUpdate"

\* r.Intn stores the state of the source and returns; r has no lock, and
\* the stores are not one step of the machine. Alone in the call, the
\* goroutine advances the source and returns. When its accesses race with
\* another goroutine's, whichever of the two ends first, the source is left
\* in any state, and the call returns or panics on an index of the source's
\* vector. What the other goroutines inside the call have read is stale.
IntnUpdate(t) ==
    /\ NoPanic
    /\ jpc[t] = "IntnUpdate"
    /\ IF ~Races(t)
       THEN /\ rngState' = Advance(jseed[t])
            /\ jpc' = [jpc EXCEPT ![t] = "idle"]
       ELSE /\ rngState' \in RngValues
            /\ \E q \in {"idle", "panic"} : jpc' = [jpc EXCEPT ![t] = q]
    /\ jseed' = [u \in Threads |->
                    IF u # t /\ jpc[u] = "IntnUpdate" THEN Stale ELSE jseed[u]]
    /\ UNCHANGED jin
    /\ UNCHANGED <<retryVars, applied, semVars>>

JitterNext ==
    \/ \E t \in Threads : \E input \in JitterInputs : CallApplyJitter(t, input)
    \/ \E t \in Threads : IntnRead(t)
    \/ \E t \in Threads : IntnUpdate(t)

JitterSpec == JitterInit /\ [][JitterNext]_vars

\* ------------------------------------------------------------------------
\* Properties of Retry
\* ------------------------------------------------------------------------
\* Retry has ended, by returning or by panicking
Terminated == pc \in {"done", "panic"}

Returned == pc = "done"

\* every invocation so far returned an error
AllFailed == \A i \in 1..calls : outcomes[i] # Nil

\* the configured predicate classifies every error as retryable
PredicateAlwaysTrue == \A err \in Errors : config.IsRetryableError[err]

\* every failure so far is classified retryable by the configured predicate
FailuresRetryable ==
    \A i \in 1..calls : outcomes[i] # Nil => config.IsRetryableError[outcomes[i]]

\* the error an unrecoverable wrapper carries, or the error itself
Inner(err) == IF err.type = "unrecoverableError" THEN err.error ELSE err

\* C1: with Attempts = k >= 1 and a predicate that is true of every error, a
\* Retry call on an operation that fails on every invocation ends by
\* returning a non-nil error after exactly k invocations.
C1_AlwaysFailingInvokedKTimes ==
    (Terminated /\ config.Attempts >= 1 /\ PredicateAlwaysTrue /\ AllFailed)
        => (Returned /\ calls = config.Attempts /\ result # Nil)

\* C2: when every earlier failure is retryable, Retry does not end before the
\* invocation that first returns nil (any invocation up to Attempts), and at
\* that invocation it returns nil; nothing is invoked after a success.
C2_SucceedsOnAttemptJ ==
    /\ \A i \in 1..(calls - 1) : outcomes[i] # Nil
    /\ (Terminated /\ FailuresRetryable) =>
          IF calls >= 1 /\ outcomes[calls] = Nil
          THEN Returned /\ result = Nil
          ELSE calls >= config.Attempts

\* C3: once an invocation has failed with an error the predicate classifies
\* as not retryable, that invocation is the last one, no sleep follows it,
\* and Retry returns a non-nil error.
C3_NotRetryableStops ==
    \A i \in 1..calls :
        (outcomes[i] # Nil /\ ~config.IsRetryableError[outcomes[i]]) =>
            /\ i = calls
            /\ Len(sleeps) = i - 1
            /\ pc \in {"return", "done"}
            /\ (pc = "done" => result # Nil)

C3_Witness ==
    /\ Returned
    /\ calls = 1
    /\ config.Attempts >= 2
    /\ ~config.IsRetryableError[outcomes[1]]
    /\ sleeps = <<>>
    /\ result # Nil

\* C4: an invocation that returns an error wrapped in the unrecoverable
\* wrapper is the last invocation of the call and is followed by no sleep.
C4_UnrecoverableStopsLoop ==
    \A i \in 1..calls :
        outcomes[i].type = "unrecoverableError" =>
            /\ i = calls
            /\ pc \in {"return", "done"}

\* C5: a Retry call that has returned has invoked the operation at least once.
C5_InvokedAtLeastOnce == Returned => calls >= 1

\* C6: Retry returns nil exactly when an invocation of the operation
\* returned nil.
C6_NilIffSuccess ==
    Returned => (result = Nil <=> \E i \in 1..calls : outcomes[i] = Nil)

\* C7: the number of invocations never exceeds the configured Attempts.
C7_InvocationsBounded == calls <= config.Attempts

C7_Witness ==
    /\ Returned
    /\ config.Attempts >= 2
    /\ calls = config.Attempts
    /\ AllFailed

C9_OneEntryPerFailure ==
    (Returned /\ ~config.LastErrorOnly /\ result # Nil) =>
        /\ result.type = "RetryError"
        /\ LET r == RetryError_Error(result.log)
           IN  /\ ~r.panic
               /\ DOMAIN r.logWithNumber = 0..(calls - 1)
               /\ \A i \in 0..(calls - 1) :
                      /\ r.logWithNumber[i].num = i + 1
                      /\ r.logWithNumber[i].msg = ErrorString(outcomes[i + 1])

\* stopped early, so that the slice is longer than the number of failures
C9_Witness ==
    /\ Returned
    /\ ~config.LastErrorOnly
    /\ config.Attempts = 3
    /\ calls = 2
    /\ result.type = "RetryError"
    /\ RetryError_Error(result.log).logWithNumber =
           [i \in 0..1 |-> [num |-> i + 1, msg |-> ErrorString(outcomes[i + 1])]]

\* C10: no entry of the error log, and no value Retry returns, is of the
\* unrecoverable wrapper type.
C10_NoWrapperInRecord ==
    /\ \A i \in DOMAIN errorLog : errorLog[i].type # "unrecoverableError"
    /\ result.type # "unrecoverableError"
    /\ result.type = "RetryError" =>
           \A i \in DOMAIN result.log : result.log[i].type # "unrecoverableError"

\* C11: Retry never panics because the operation returned an error: whatever
\* the configuration and the failures, the call does not end in a panic.
C11_NeverPanics == pc # "panic"

\* ------------------------------------------------------------------------
\* Properties of the semaphore
\* ------------------------------------------------------------------------
RECURSIVE SumOver(_, _)
SumOver(f, S) ==
    IF S = {} THEN 0
    ELSE LET x == CHOOSE y \in S : TRUE IN f[x] + SumOver(f, S \ {x})

\* goroutines inside a Wait call
InWait == {t \in Threads : tpc[t] \in {"Wait", "WaitAcquire", "WaitParked"}}

\* permits of workers: acquired through Acquire or the acquire channel, and
\* the Release that returns them has not taken its token yet
WorkerPermits == held + SumOver(releasing, ChanIds)

\* permits held: those of the workers and those the Wait calls in progress
\* have acquired so far
PermitsHeld == WorkerPermits + SumOver(wi, InWait)

\* no Release has been called without a permit
Matched == unmatched = 0

\* C12: while every Release follows a matching acquire, the number of
\* permits held is between 0 and N.
C12_PermitsWithinCapacity ==
    Matched => (PermitsHeld >= 0 /\ PermitsHeld <= capacity)

\* all N permits are with workers and a further Acquire is parked
C12_Witness ==
    /\ Matched
    /\ capacity = 2
    /\ WorkerPermits = capacity
    /\ \E t \in Threads : tpc[t] = "AcquireParked"

\* C13: an Acquire waits only while N permits are held, and an Acquire that
\* waits is completed only by a step of a Release.
C13_AcquireBlocksOnlyWhenFull ==
    [][\A t \in Threads :
          /\ (Matched /\ tpc[t] = "AcquireParked") => PermitsHeld = capacity
          /\ (tpc[t] = "AcquireParked" /\ tpc'[t] # "AcquireParked") =>
                 \E c \in ChanIds : releasing'[c] < releasing[c]]_vars

\* C14: Wait returns only after every outstanding permit has been released:
\* when the last acquire of a Wait call completes, and when the call
\* returns, no worker has a permit.
C14_WaitReturnsAfterAllReleased ==
    [][\A t \in Threads :
          (/\ Matched
           /\ \/ wi[t] < capacity /\ wi'[t] = capacity
              \/ tpc[t] = "Wait" /\ tpc'[t] = "idle")
            => WorkerPermits' = 0]_vars

\* the last acquire of a Wait call is done, after a permit was given back to it
C14_Witness ==
    /\ Matched
    /\ capacity = 2
    /\ \E t \in Threads : tpc[t] = "Wait" /\ wi[t] = capacity
    /\ served = 1
    /\ WorkerPermits = 0

\* C15: with a single coordinator, a Wait call that has begun returns.
C15_WaitEventuallyReturns ==
    (coordinators = {1} /\ 1 \in InWait) ~> (1 \notin InWait)

\* the single coordinator is back from a Wait that had to be given a permit
C15_Witness ==
    /\ coordinators = {1}
    /\ tpc[1] = "idle"
    /\ nchans = 2
    /\ served = 1

\* C16: when Wait returns, no worker has a permit and the semaphore has an
\* empty channel of the same capacity N; on that channel an Acquire waits
\* only when N tokens are in it.
C16_ReusableAfterWait ==
    [][/\ \A t \in Threads :
             (Matched /\ tpc[t] = "Wait" /\ tpc'[t] = "idle") =>
                 /\ WorkerPermits' = 0
                 /\ buf'[semaphoreChannel'] = 0
                 /\ sendq'[semaphoreChannel'] = <<>>
                 /\ recvq'[semaphoreChannel'] = 0
                 /\ capacity' = capacity
       /\ \A t \in Threads :
             (/\ Matched
              /\ tpc[t] = "Acquire"
              /\ tch[t] = semaphoreChannel
              /\ tpc'[t] = "AcquireParked")
                 => buf[semaphoreChannel] = capacity]_vars

\* a second wave: after one Wait, N permits are out again and a further
\* Acquire waits
C16_Witness ==
    /\ Matched
    /\ capacity = 2
    /\ nchans = 2
    /\ semaphoreChannel = 1
    /\ WorkerPermits = 2
    /\ \E t \in Threads : tpc[t] = "AcquireParked" /\ tch[t] = 1

\* goroutine t takes the timeout case of its select in this step
TakesTimeout(t) ==
    /\ tpc[t] \in {"Select", "SelectParked"}
    /\ tpc'[t] = "TimedOut"

\* the timeout case changes nothing of the semaphore but the send queue the
\* goroutine leaves
TimeoutStep ==
    \A t \in Threads :
        TakesTimeout(t) =>
            /\ buf' = buf
            /\ recvq' = recvq
            /\ held' = held
            /\ selHeld' = selHeld
            /\ PermitsHeld' = PermitsHeld
            /\ \A c \in ChanIds :
                   /\ \A k \in 1..Len(sendq'[c]) : sendq'[c][k] # t
                   /\ sendq'[c] = SelectSeq(sendq[c], LAMBDA x : x # t)

\* goroutine t is in the timeout case of a select on the current channel and
\* its select left no token behind: every token in the channel is a permit
\* held
NoTokenLeft(t) ==
    (Matched /\ tpc[t] = "TimedOut" /\ tch[t] = semaphoreChannel) =>
        /\ buf[semaphoreChannel] = PermitsHeld
        /\ \A k \in 1..Len(sendq[semaphoreChannel]) : sendq[semaphoreChannel][k] # t

\* C17: a select on the acquire channel that takes its timeout case leaves
\* the semaphore as it was: the step adds no token and changes no count of
\* permits, the goroutine is in no send queue, and once it is in the timeout
\* case the channel holds exactly one token per permit held, none for the
\* select that was given up.
C17_TimeoutLeavesStateUnchanged ==
    /\ [](\A t \in Threads : NoTokenLeft(t))
    /\ [][TimeoutStep]_vars

\* a goroutine is in the timeout case of its select while the channel is
\* full of the workers' permits
C17_Witness ==
    /\ Matched
    /\ capacity = 1
    /\ waits = 0
    /\ held = capacity
    /\ buf[semaphoreChannel] = capacity
    /\ \E t \in Threads :
          /\ tpc[t] = "TimedOut"
          /\ tch[t] = semaphoreChannel
          /\ \A c \in ChanIds : \A k \in 1..Len(sendq[c]) : sendq[c][k] # t

\* the goroutines whose Acquire is parked on channel c: the Acquire calls
\* of workers and the Acquire calls Wait makes
PendingAcquires(c) ==
    {t \in Threads : tpc[t] \in {"AcquireParked", "WaitParked"} /\ tch[t] = c}

\* C18: when Acquire calls are blocked on the channel with N permits held
\* and a holder has called Release, one of those Acquire calls completes.
C18_ReleaseUnblocksPending ==
    \A S \in (SUBSET Threads) \ {{}} :
        (/\ Matched
         /\ PendingAcquires(semaphoreChannel) = S
         /\ PermitsHeld = capacity
         /\ releasing[semaphoreChannel] > 0)
            ~> (\E t \in S : tpc[t] \notin {"AcquireParked", "WaitParked"})

\* no Wait was called, and a Release has completed the parked send of an
\* Acquire, whose permit is held
C18_Witness ==
    /\ Matched
    /\ waits = 0
    /\ capacity = 1
    /\ served = 1
    /\ held = 1
    /\ selHeld = 0
    /\ \A t \in Threads : tpc[t] = "idle"

\* ------------------------------------------------------------------------
\* Properties of the configuration
\* ------------------------------------------------------------------------

\* Retry was called with no options and is past applying them
NoOptions == applied = <<>> /\ pc # "options"

\* C19: a Retry call without options makes at most 3 invocations, has a base
\* delay of 100 ms and the exponential backoff with jitter as its delay,
\* classifies every non-nil error as retryable, and returns every attempt's
\* error in the aggregate (LastErrorOnly is false).
C19_DefaultsWithoutOptions ==
    NoOptions =>
        /\ config.Attempts = 3
        /\ calls <= 3
        /\ config.DelayMillisecond = 100
        /\ \A k \in 0..2 :
               DelayType(k, config) =
                   {ms * Millisecond :
                       ms \in (75 * Pow2(k))..(125 * Pow2(k) - 1)}
        /\ \A err \in Errors : config.IsRetryableError[err]
        /\ ~config.IsRetryableError[Nil]
        /\ ~config.LastErrorOnly
        /\ (Returned /\ result # Nil) =>
               /\ result.type = "RetryError"
               /\ lenWithoutNil(result.log) = calls

\* three failing invocations without options, and the aggregate returned
C19_Witness ==
    /\ NoOptions
    /\ Returned
    /\ calls = 3
    /\ Len(sleeps) = 2
    /\ result.type = "RetryError"

\* the field of RetryConfig an option sets
Field(o) ==
    CASE o.opt \in {"Attempts", "DelayMillisecond", "LastErrorOnly"} -> o.opt
      [] o.opt \in {"ExponentialJitterBackoff", "ExponentialBackOff", "Fixed"} ->
             "DelayType"
      [] OTHER -> "IsRetryableError"

\* the value an option sets its field to
Value(o) ==
    CASE o.opt \in {"Attempts", "DelayMillisecond", "LastErrorOnly"} -> o.arg
      [] o.opt = "ExponentialJitterBackoff" -> "ExponentialJitterBackoffDelay"
      [] o.opt = "ExponentialBackOff" -> "ExponentialBackOffDelay"
      [] o.opt = "Fixed" -> "FixedDelay"
      [] o.opt = "AnyError" -> [e \in ReturnValues |-> e # Nil]
      [] OTHER -> o.arg

\* the value of a field after the options opts: that of the last option on
\* the field, or the default
Expected(field, opts) ==
    LET idx == {i \in 1..Len(opts) : Field(opts[i]) = field}
    IN  IF idx = {}
        THEN CASE field = "Attempts" -> 3
               [] field = "DelayMillisecond" -> 100
               [] field = "DelayType" -> "ExponentialJitterBackoffDelay"
               [] field = "LastErrorOnly" -> FALSE
               [] OTHER -> [e \in ReturnValues |-> e # Nil]
        ELSE Value(opts[CHOOSE i \in idx : \A j \in idx : j <= i])

\* opts with the options at i and i + 1 exchanged
Swapped(opts, i) ==
    [k \in 1..Len(opts) |->
        IF k = i THEN opts[i + 1] ELSE IF k = i + 1 THEN opts[i] ELSE opts[k]]

RECURSIVE ApplyAll(_, _)
\* the options opts applied in order to c
ApplyAll(opts, c) ==
    IF opts = <<>> THEN c ELSE ApplyAll(Tail(opts), ApplyOpt(Head(opts), c))

\* C20: the configuration is the defaults with the options applied in
\* order: each field has the value of the last option on it, or its default
\* when there is none, and exchanging two neighbouring options on different
\* fields gives the same configuration.
C20_OptionsAppliedInOrder ==
    /\ \A field \in DOMAIN config : config[field] = Expected(field, applied)
    /\ \A i \in 1..(Len(applied) - 1) :
           Field(applied[i]) # Field(applied[i + 1]) =>
               ApplyAll(Swapped(applied, i), DefaultConfig) = config

\* two options on one field then one on another: the later value is used
C20_Witness ==
    /\ Len(applied) = 2
    /\ applied[1] = [opt |-> "Attempts", arg |-> 1]
    /\ applied[2] = [opt |-> "Attempts", arg |-> 2]
    /\ Returned
    /\ calls = 2
    /\ config.DelayMillisecond = 100

\* options on different fields were applied and the call has returned
C20_WitnessCommute ==
    /\ Len(applied) = 2
    /\ applied[1] = [opt |-> "Fixed", arg |-> 0]
    /\ applied[2] = [opt |-> "DelayMillisecond", arg |-> 2]
    /\ Returned

\* ------------------------------------------------------------------------
\* Properties of the delays and of the loop
\* ------------------------------------------------------------------------

\* the attempt indices a sleep of the model can follow
AttemptIndices == 0..(MaxAttempts - 1)

\* C21: with the fixed strategy the duration about to be slept is the base
\* delay, config.DelayMillisecond milliseconds, at every attempt index.
C21_FixedDelayIsBaseDelay ==
    config.DelayType = "FixedDelay" =>
        /\ \A k \in AttemptIndices :
               FixedDelay(k, config) = {config.DelayMillisecond * Millisecond}
        /\ pc = "sleep" => delayTime = config.DelayMillisecond * Millisecond

\* C22: with the exponential strategy the duration about to be slept after
\* the failure of attempt n is config.DelayMillisecond milliseconds times 2^n.
C22_ExponentialDelayDoubles ==
    config.DelayType = "ExponentialBackOffDelay" =>
        /\ \A k \in AttemptIndices :
               ExponentialBackOffDelay(k, config) =
                   {config.DelayMillisecond * Millisecond * Pow2(k)}
        /\ pc = "sleep" =>
               delayTime = config.DelayMillisecond * Millisecond * Pow2(n)

\* the duration v, in nanoseconds, is a whole number of milliseconds within
\* [0.75 x, 1.25 x)
WithinJitter(v, x) ==
    /\ v % Millisecond = 0
    /\ 4 * (v \div Millisecond) >= 3 * x
    /\ 4 * (v \div Millisecond) < 5 * x

\* C23: with the jitter strategy and a base delay d >= 1, the delay for
\* attempt n is computed without a panic and lies within
\* [0.75 d 2^n, 1.25 d 2^n) milliseconds.
C23_JitterWithinQuarter ==
    (config.DelayType = "ExponentialJitterBackoffDelay" /\ config.DelayMillisecond >= 1) =>
        /\ \A k \in AttemptIndices :
               /\ ~ApplyJitterPanics(config.DelayMillisecond * Pow2(k))
               /\ \A v \in ExponentialJitterBackoffDelay(k, config) :
                      WithinJitter(v, config.DelayMillisecond * Pow2(k))
        /\ pc = "sleep" => WithinJitter(delayTime, config.DelayMillisecond * Pow2(n))

\* what holds of a step that sleeps
SleepStep ==
    Len(sleeps') > Len(sleeps) =>
        /\ calls >= 1
        /\ Len(sleeps) = calls - 1
        /\ outcomes[calls] # Nil
        /\ config.IsRetryableError[outcomes[calls]]
        /\ calls < config.Attempts
        /\ pc' = "loop"
        /\ n' < config.Attempts

\* C25: a call that has made m >= 1 invocations has slept m - 1 times when
\* it ends, and m - 1 or m times before; a sleep is made only after a failed
\* invocation whose error is retryable and which is not the last allowed,
\* and an invocation follows every sleep.
C25_SleepsOnlyBetweenInvocations ==
    /\ [](/\ Len(sleeps) <= calls
          /\ calls >= 1 => Len(sleeps) >= calls - 1
          /\ (calls >= 1 /\ Len(sleeps) = calls) =>
                 (pc \in {"loop", "opPanic", "propagated"} /\ n < config.Attempts)
          /\ (calls >= 1 /\ pc \in {"return", "done", "panic"}) =>
                 Len(sleeps) = calls - 1)
    /\ [][SleepStep]_vars

\* two sleeps, each between two invocations, and none after the success
C25_Witness ==
    /\ Returned
    /\ calls = 3
    /\ Len(sleeps) = 2
    /\ result = Nil

\* the durations the strategy of c gives for attempt index k
StrategyDelays(k, c) ==
    CASE c.DelayType = "ExponentialJitterBackoffDelay" ->
             ExponentialJitterBackoffDelay(k, c)
      [] c.DelayType = "ExponentialBackOffDelay" -> ExponentialBackOffDelay(k, c)
      [] OTHER -> FixedDelay(k, c)

\* C26: the sleep after the i-th failed invocation has a duration the
\* strategy gives for index i - 1: the first sleep uses index 0 and the
\* index grows by one per attempt.
C26_DelayUsesAttemptIndex ==
    /\ \A i \in 1..Len(sleeps) : sleeps[i] = i - 1 /\ outcomes[i] # Nil
    /\ pc = "sleep" =>
           /\ calls >= 1
           /\ outcomes[calls] # Nil
           /\ Len(sleeps) = calls - 1
           /\ n = calls - 1
           /\ delayTime \in StrategyDelays(calls - 1, config)

\* about to sleep after the second failure, with the delay of index 1
C26_Witness ==
    /\ pc = "sleep"
    /\ calls = 2
    /\ sleeps = <<0>>
    /\ config.DelayType = "ExponentialBackOffDelay"
    /\ config.DelayMillisecond = 3
    /\ delayTime = 6

\* C27: the fixed delay is the same for an attempt index and the next one,
\* and the duration about to be slept does not depend on the index.
C27_FixedDelayIndependentOfIndex ==
    /\ \A k \in 0..MaxAttempts : FixedDelay(k, config) = FixedDelay(k + 1, config)
    /\ (pc = "sleep" /\ config.DelayType = "FixedDelay") =>
           delayTime \in FixedDelay(0, config)

\* about to sleep after the second failure with the fixed strategy
C27_Witness ==
    /\ pc = "sleep"
    /\ n = 1
    /\ config.DelayType = "FixedDelay"
    /\ config.DelayMillisecond = 2
    /\ delayTime = 2

\* what holds of a step taken once the operation has panicked
StepAfterPanic ==
    pc \in {"opPanic", "propagated"} =>
        /\ pc' = "propagated"
        /\ outcomes' = outcomes
        /\ sleeps' = sleeps
        /\ result' = result
        /\ errorLog' = errorLog

\* C28: a panic of the operation leaves Retry for the caller: after it no
\* invocation is made, nothing is slept and no value is returned.
C28_OperationPanicPropagates ==
    /\ [](pc \in {"opPanic", "propagated"} => result = NoResult)
    /\ [][StepAfterPanic]_vars

\* the second invocation panicked and the panic has left Retry
C28_Witness ==
    /\ pc = "propagated"
    /\ calls = 1
    /\ Len(sleeps) = 1
    /\ result = NoResult

\* C30: when every invocation and every sleep returns, the call returns,
\* after at most Attempts invocations and Attempts - 1 sleeps.
C30_RetryReturns ==
    /\ <>(pc \in {"done", "opPanic", "propagated"})
    /\ [](pc # "options" =>
             /\ calls <= config.Attempts
             /\ Len(sleeps) <= config.Attempts - 1 \/ sleeps = <<>>)

\* ------------------------------------------------------------------------
\* Properties of the random source and of permits taken in a select
\* ------------------------------------------------------------------------

\* C24: the accesses of goroutines to the random source never interleave: a
\* goroutine that has read the state of the source and not yet written it
\* back is the only one there, and the state is still the one it read.
C24_SourceAccessesDoNotInterleave ==
    \A t \in Threads :
        jpc[t] = "IntnUpdate" =>
            /\ jseed[t] = rngState
            /\ \A u \in Threads \ {t} : jpc[u] # "IntnUpdate"

\* what holds of a step of a permit taken in a select
SelectPermitStep ==
    /\ selHeld' > selHeld =>
           /\ selHeld' = selHeld + 1
           /\ held' = held + 1
           /\ \E c \in ChanIds :
                  /\ \A d \in ChanIds \ {c} : buf'[d] = buf[d] /\ recvq'[d] = recvq[d]
                  /\ \/ /\ buf[c] < capacity
                        /\ buf'[c] = buf[c] + 1
                        /\ recvq' = recvq
                        /\ PermitsHeld' = PermitsHeld + 1
                     \/ /\ recvq'[c] = recvq[c] - 1
                        /\ buf' = buf
                        /\ PermitsHeld' = PermitsHeld + 1
                     \/ /\ releasing'[c] = releasing[c] - 1
                        /\ buf' = buf
                        /\ recvq' = recvq
                        /\ PermitsHeld' = PermitsHeld
    /\ selHeld' < selHeld =>
           /\ selHeld' = selHeld - 1
           /\ held' = held - 1
           /\ releasing'[semaphoreChannel] = releasing[semaphoreChannel] + 1
           /\ PermitsHeld' = PermitsHeld
    /\ \A t \in Threads :
           (Matched /\ tpc[t] = "Wait" /\ tpc'[t] = "idle") => selHeld' = 0

\* C29: a permit taken in a select on the acquire channel puts one token in
\* the channel as Acquire does (in a free slot, to a parked receiver, or in
\* the place of the token a Release takes) and counts toward the capacity,
\* one Release call gives it back, and Wait does not return while it is held.
C29_SelectPermitIsAPermit ==
    /\ [](selHeld >= 0 /\ selHeld <= held)
    /\ [](Matched => PermitsHeld <= capacity)
    /\ [][SelectPermitStep]_vars

\* all N permits were taken in a select and Wait is parked until one of
\* them is released
C29_Witness ==
    /\ Matched
    /\ capacity = 2
    /\ selHeld = 2
    /\ held = 2
    /\ waits = 1
    /\ \E t \in Threads : tpc[t] = "WaitParked" /\ wi[t] = 0

\* ------------------------------------------------------------------------
\* Properties of the error log
\* ------------------------------------------------------------------------

\* the slots of the log e that hold an error
NonNilSlots(e) == {i \in DOMAIN e : e[i] # Nil}

\* the number of invocations so far that returned an error
Failures == Cardinality({i \in 1..calls : outcomes[i] # Nil})

\* C31: in a RetryError that Retry returns the errors are in the slots
\* 0..m-1, m being the number of failed invocations, and every later slot is
\* nil, so that Error() writes no line outside the slice it sized.
C31_ErrorsFormPrefix ==
    (Returned /\ result.type = "RetryError") =>
        /\ NonNilSlots(result.log) = 0..(Failures - 1)
        /\ lenWithoutNil(result.log) = Failures
        /\ Failures <= Cardinality(DOMAIN result.log)
        /\ ~RetryError_Error(result.log).panic
        /\ DOMAIN RetryError_Error(result.log).logWithNumber = 0..(Failures - 1)

\* the loop stopped on the second failure, a non-retryable one, and left
\* the third slot nil
C31_Witness ==
    /\ Returned
    /\ result.type = "RetryError"
    /\ config.Attempts = 3
    /\ calls = 2
    /\ ~config.IsRetryableError[outcomes[2]]
    /\ NonNilSlots(result.log) = {0, 1}
    /\ result.log[2] = Nil

\* ------------------------------------------------------------------------
\* Properties of the semaphore across Wait, and of unmatched Release
\* ------------------------------------------------------------------------

\* C32: an Acquire that is blocked on the full channel of the semaphore
\* while a Wait call of another goroutine is in progress gets a permit.
C32_BlockedAcquireNotStranded ==
    \A t \in Threads :
        (/\ Matched
         /\ tpc[t] = "AcquireParked"
         /\ tch[t] = semaphoreChannel
         /\ InWait \ {t} # {})
            ~> (tpc[t] = "idle")

\* C33: the channel a goroutine got from GetAcquireChannel is the one the
\* semaphore uses, also after a Wait call has returned, and a send on it
\* stays blocked only while N permits are held.
C33_HandleStaysLive ==
    \A t \in Threads :
        /\ (Matched /\ tpc[t] \in {"Select", "SelectParked"}) =>
               tch[t] = semaphoreChannel
        /\ (Matched /\ tpc[t] = "SelectParked") => PermitsHeld = capacity

\* C34: with two goroutines that call Wait, every Wait call that has begun
\* returns.
C34_BothWaitsReturn ==
    \A t \in Threads :
        (coordinators = {1, 2} /\ t \in InWait) ~> (t \notin InWait)

\* what holds of a step of a Release on a channel without a token
ReleaseOnEmptyStep ==
    \A c \in ChanIds :
        /\ (releasing'[c] < releasing[c] /\ buf[c] = 0) =>
               /\ recvq'[c] = recvq[c] + 1
               /\ buf' = buf
               /\ held' = held
        /\ recvq'[c] < recvq[c] =>
               /\ recvq'[c] = recvq[c] - 1
               /\ buf' = buf
               /\ \E t \in Threads :
                      /\ tpc[t] \in {"Acquire", "Select", "WaitAcquire"}
                      /\ tpc'[t] # tpc[t]
                      /\ tch[t] = c

\* C35: the number of tokens of every channel is within 0..N, also with
\* unmatched Release calls; a Release on a channel without a token waits,
\* and it returns only when a send puts a token in.
C35_UnmatchedReleaseBlocks ==
    /\ [](\A c \in ChanIds :
             /\ buf[c] >= 0
             /\ buf[c] <= capacity
             /\ recvq[c] >= 0
             /\ recvq[c] > 0 => buf[c] = 0)
    /\ [][ReleaseOnEmptyStep]_vars

\* an unmatched Release waited on the empty channel and took the token of
\* the Acquire that came after it
C35_Witness ==
    /\ unmatched = 1
    /\ held = 1
    /\ waits = 0
    /\ \A c \in ChanIds : buf[c] = 0 /\ recvq[c] = 0 /\ releasing[c] = 0
    /\ \A t \in Threads : tpc[t] = "idle"

====
